---------------------------- MODULE Spec2Model ----------------------------
(***************************************************************************)
(* Model of book_tools/pymobi/compression.py: the PalmDOC (LZ77) record    *)
(* decoder Palmdoc.unpack / unpack3 and the HUFF/CDIC decoder Huffcdic.    *)
(*                                                                         *)
(* Python indices are 0-based, TLA+ sequences are 1-based: the model keeps *)
(* the Python value of every index variable (p, pos, r) and adds 1 where a *)
(* sequence is subscripted.                                                *)
(***************************************************************************)
EXTENDS Integers, Sequences, FiniteSets, TLC

VARIABLES
    i,          \* Palmdoc.unpack3: the compressed record (argument i)
    p,          \* Palmdoc.unpack3: read position in i
    o,          \* Palmdoc.unpack3: the output built so far
    pstate,     \* "run" inside the while loop, "returned", or "raised"
    prev,       \* history: p and o as they were before the last loop iteration
    attrs,      \* Huffcdic: the attributes the object has been given so far
    dict1,      \* Huffcdic.dict1: 256 entries (codelen, term, maxcode)
    mincode,    \* Huffcdic.mincode: 33 entries, index = code length
    maxcode,    \* Huffcdic.maxcode: 33 entries, index = code length
    dictionary, \* Huffcdic.dictionary: slots (slice, flag), or None
    stack,      \* the active Huffcdic.unpack calls, innermost last
    lastOp,     \* history: the last call made on the decoder and how it ended
    last,       \* history: the code looked up by the last loop iteration
    resolves,   \* history: per slot, the recursive decodes started for it
    phraseSeen, \* history: phrase counts of the blobs loaded since loadHuff
    loaded,     \* history: the dictionary as loadCdic built it, nothing cached
    other       \* a second thread's unpack call while the first one runs

pvars == <<i, p, o, pstate, prev>>

hvars == <<attrs, dict1, mincode, maxcode, dictionary, stack, lastOp, last,
           resolves, phraseSeen, loaded, other>>

vars == <<pvars, hvars>>

(***************************************************************************)
(* Python sequence primitives                                              *)
(***************************************************************************)

Min(a, b) == IF a < b THEN a ELSE b

Max(a, b) == IF a > b THEN a ELSE b

\* A slice bound as Python normalises it: a negative bound counts from the
\* end, and the result is clipped to 0..len.
PyBound(len, k) == IF k < 0 THEN Max(len + k, 0) ELSE Min(k, len)

\* s[a:b] of Python: never fails, clips, and is empty when a >= b.
PySlice(s, a, b) == SubSeq(s, PyBound(Len(s), a) + 1, PyBound(Len(s), b))

\* Whether s[k] of Python is inside s (otherwise it raises IndexError).
PyIndexOK(s, k) == -Len(s) <= k /\ k < Len(s)

\* s[k] of Python for an index inside s; -0 is 0, the first element.
PyIndex(s, k) == IF k < 0 THEN s[Len(s) + k + 1] ELSE s[k + 1]

\* c ^ 128
Xor128(c) == IF (c \div 128) % 2 = 1 THEN c - 128 ELSE c + 128

\* None
None == <<>>

\* No code looked up yet.
NoLookup ==
    [kind |-> "none", idx |-> 0, codelen |-> 0, maxcode |-> <<0, 0>>,
     widened |-> 0, r |-> 0, dlen |-> 0]

\* A thread that is in no unpack call.
NoCall ==
    [stack |-> <<>>,
     lastOp |-> [op |-> "new", arg |-> 0, result |-> "ok", value |-> <<>>],
     last |-> NoLookup]

\* Huffcdic(): a new object has none of the attributes; no call was made.
HuffFresh ==
    /\ attrs = {}
    /\ dict1 = <<>>
    /\ mincode = <<>>
    /\ maxcode = <<>>
    /\ dictionary = <<>>
    /\ stack = <<>>
    /\ lastOp = [op |-> "new", arg |-> 0, result |-> "ok", value |-> <<>>]
    /\ last = NoLookup
    /\ resolves = <<>>
    /\ phraseSeen = {}
    /\ loaded = <<>>
    /\ other = NoCall

(***************************************************************************)
(* Palmdoc.unpack3 (Palmdoc.unpack is the same loop over a str)            *)
(***************************************************************************)

\* Bound: the longest enumerated record.
MaxLen == 5

\* The byte values the enumerated records are made of:
\*   0    literal, and as 2nd byte of a back-reference m = 0, n = 3
\*   2    literal run of 2
\*   16   literal, and as 2nd byte m = 2, n = 3
\*   24   literal, and as 2nd byte m = 3, n = 3
\*   32   literal (space), and as 2nd byte m = 4, n = 3
\*   128  1st byte of a back-reference
\*   193  space + "A"
RecordBytes == {0, 2, 16, 24, 32, 128, 193}

\* [0x05, 'H', 'e', 'l', 'l', 'o', 0x20]
HelloRecord == <<5, 72, 101, 108, 108, 111, 32>>

PalmInputs ==
    UNION {[1..k -> RecordBytes] : k \in 0..MaxLen} \cup {HelloRecord}

\* m = (c >> 3) & 0x07FF for the 16-bit c = (c << 8) | i[p]
Distance(c, b) == (((c * 256) + b) \div 8) % 2048

\* n = (c & 7) + 3
RunLength(c, b) == (((c * 256) + b) % 8) + 3

\* The fill loop with the source byte read once, before the loop.
FillFixed(out, m, k) ==
    out \o [z \in 1..k |-> PyIndex(out, -m)]

\* for z in range(n): o += o[-m]   (o[-m] is evaluated anew on every pass)
RECURSIVE BackrefFill(_, _, _)
BackrefFill(out, m, k) ==
    IF k = 0 THEN out
    ELSE BackrefFill(Append(out, PyIndex(out, -m)), m, k - 1)

\* A bulk copy that takes everything from -m to the end.
BackrefCopyToEnd(out, m, n) == out \o PySlice(out, -m, Len(out))

\* o += o[-m : n - m]
BackrefCopy(out, m, n) == out \o PySlice(out, -m, n - m)

\* o += b" " + (c ^ 128).to_bytes(1, "big") without the xor
SpaceCharRaw(out, c) == out \o <<32, c>>

\* o += b" " + (c ^ 128).to_bytes(1, "big")
SpaceChar(out, c) == out \o <<32, Xor128(c)>>

PalmInit ==
    /\ i \in PalmInputs
    /\ p = 0
    /\ o = <<>>
    /\ pstate = "run"
    /\ prev = [p |-> 0, o |-> <<>>]
    /\ HuffFresh

\* The loop head and the read of the control byte: while p < len(i): c = i[p]
InLoop == pstate = "run" /\ p < Len(i)

Remember == prev' = [p |-> p, o |-> o]

\* if c >= 1 and c <= 8: o += i[p : p + c]; p += c
PalmLiteralRun ==
    /\ InLoop
    /\ LET c == i[p + 1] IN
        /\ c >= 1 /\ c <= 8
        /\ o' = o \o PySlice(i, p + 1, p + 1 + c)
        /\ p' = p + 1 + c
    /\ Remember
    /\ UNCHANGED <<i, pstate, hvars>>

\* elif c < 128: o += c.to_bytes(1, "big")
PalmLiteral ==
    /\ InLoop
    /\ LET c == i[p + 1] IN
        /\ ~(c >= 1 /\ c <= 8)
        /\ c < 128
        /\ o' = Append(o, c)
        /\ p' = p + 1
    /\ Remember
    /\ UNCHANGED <<i, pstate, hvars>>

\* elif c >= 192: o += b" " + (c ^ 128).to_bytes(1, "big")
PalmSpace ==
    /\ InLoop
    /\ LET c == i[p + 1] IN
        /\ c >= 192
        /\ o' = SpaceChar(o, c)
        /\ p' = p + 1
    /\ Remember
    /\ UNCHANGED <<i, pstate, hvars>>

\* else: if p < len(i) fails: the control byte is dropped, nothing is appended
PalmBackrefNoByte ==
    /\ InLoop
    /\ LET c == i[p + 1] IN
        /\ c >= 128 /\ c < 192
        /\ ~(p + 1 < Len(i))
        /\ p' = p + 1
    /\ Remember
    /\ UNCHANGED <<i, o, pstate, hvars>>

\* else: ... if m > n: o += o[-m : n - m]
PalmBackrefCopy ==
    /\ InLoop
    /\ LET c == i[p + 1] IN
        /\ c >= 128 /\ c < 192
        /\ p + 1 < Len(i)
        /\ LET m == Distance(c, i[p + 2])
               n == RunLength(c, i[p + 2])
           IN  /\ m > n
               /\ o' = BackrefCopy(o, m, n)
        /\ p' = p + 2
    /\ Remember
    /\ UNCHANGED <<i, pstate, hvars>>

\* else: ... else: for z in range(n): o += o[-m]
PalmBackrefFill ==
    /\ InLoop
    /\ LET c == i[p + 1] IN
        /\ c >= 128 /\ c < 192
        /\ p + 1 < Len(i)
        /\ LET m == Distance(c, i[p + 2])
               n == RunLength(c, i[p + 2])
           IN  /\ ~(m > n)
               /\ PyIndexOK(o, -m)
               /\ o' = BackrefFill(o, m, n)
        /\ p' = p + 2
    /\ Remember
    /\ UNCHANGED <<i, pstate, hvars>>

\* o[-m] on the first pass of the fill loop raises IndexError: the call ends
\* without a return value.
PalmBackrefRaise ==
    /\ InLoop
    /\ LET c == i[p + 1] IN
        /\ c >= 128 /\ c < 192
        /\ p + 1 < Len(i)
        /\ LET m == Distance(c, i[p + 2])
               n == RunLength(c, i[p + 2])
           IN  /\ ~(m > n)
               /\ ~PyIndexOK(o, -m)
        /\ p' = p + 2
    /\ pstate' = "raised"
    /\ Remember
    /\ UNCHANGED <<i, o, hvars>>

\* while p < len(i) fails: return o
PalmReturn ==
    /\ pstate = "run"
    /\ ~(p < Len(i))
    /\ pstate' = "returned"
    /\ UNCHANGED <<i, p, o, prev, hvars>>

PalmNext ==
    \/ PalmLiteralRun
    \/ PalmLiteral
    \/ PalmSpace
    \/ PalmBackrefNoByte
    \/ PalmBackrefCopy
    \/ PalmBackrefFill
    \/ PalmBackrefRaise
    \/ PalmReturn

PalmSpec == PalmInit /\ [][PalmNext]_vars


(***************************************************************************)
(* Unsigned integers wider than the checker's: Python integers are         *)
(* unbounded and the decoder's codes are 32-bit, so a code, a mincode or a *)
(* maxcode is kept as <<h, l>> with value h * 2^16 + l and 0 <= l < 2^16   *)
(* (h is negative for a negative difference).                              *)
(***************************************************************************)

Limb == 2^16

Wide(h, l) == <<h + (l \div Limb), l % Limb>>

\* a << k, for a plain integer a >= 0
WShl(a, k) ==
    IF k >= 16 THEN <<a * 2^(k - 16), 0>>
    ELSE <<a \div 2^(16 - k), (a % 2^(16 - k)) * 2^k>>

\* w - 1
WDec(w) == Wide(w[1], w[2] - 1)

\* a < b
WLess(a, b) == a[1] < b[1] \/ (a[1] = b[1] /\ a[2] < b[2])

\* (a - b) >> k as a plain integer; >> rounds towards minus infinity
WSubShr(a, b, k) ==
    LET d == Wide(a[1] - b[1], a[2] - b[2]) IN
    IF k >= 16 THEN d[1] \div 2^(k - 16)
    ELSE d[1] * 2^(16 - k) + (d[2] \div 2^k)

(***************************************************************************)
(* struct: big-endian fields of a byte string (offsets 0-based)            *)
(***************************************************************************)

\* struct.unpack_from(">H", b, off)
U16At(b, off) == b[off + 1] * 256 + b[off + 2]

\* struct.unpack_from(">L", b, off); the enumerated blobs keep it below 2^31
U32At(b, off) ==
    b[off + 1] * 2^24 + b[off + 2] * 65536 + b[off + 3] * 256 + b[off + 4]

\* A 32-bit table entry v as (v >> 8, v & 0xFF)
RawAt(b, off) ==
    [hi |-> b[off + 1] * 65536 + b[off + 2] * 256 + b[off + 3],
     lo |-> b[off + 4]]

(***************************************************************************)
(* Huffcdic.loadHuff                                                       *)
(***************************************************************************)

\* "HUFF\x00\x00\x00\x18"
HuffMagic == <<72, 85, 70, 70, 0, 0, 0, 24>>

\* codelen = v & 0x1F
Dict1Codelen(v) == v.lo % 32

\* term taken from bit 6: v & 0x40
Dict1TermBit6(v) == ((v.lo \div 64) % 2) * 64

\* term = v & 0x80
Dict1Term(v) == ((v.lo \div 128) % 2) * 128

\* dict1_unpack without the assertion on term
Dict1OnlyNonZero(v) == Dict1Codelen(v) # 0

\* The two assertions of dict1_unpack: assert codelen != 0;
\* if codelen <= 8: assert term
Dict1Asserts(v) ==
    /\ Dict1Codelen(v) # 0
    /\ Dict1Codelen(v) <= 8 => Dict1Term(v) # 0

\* dict1_unpack(v): (codelen, term, ((maxcode + 1) << (32 - codelen)) - 1)
dict1_unpack(v) ==
    <<Dict1Codelen(v), Dict1Term(v),
      WDec(WShl(v.hi + 1, 32 - Dict1Codelen(v)))>>

\* off1, off2 = struct.unpack_from(">LL", huff, 8)
HuffOff1(huff) == U32At(huff, 8)

HuffOff2(huff) == U32At(huff, 12)

\* struct.unpack_from(">256L", huff, off1), entry k of 0..255
HuffRaw1(huff, k) == RawAt(huff, HuffOff1(huff) + 4 * k)

\* dict2 = struct.unpack_from(">64L", huff, off2), entry k of 0..63
HuffDict2(huff, k) == U32At(huff, HuffOff2(huff) + 4 * k)

\* How loadHuff(huff) ends: the exception raised, "partial" for the
\* struct.error of line 85 (raised after self.dict1 is assigned), or "ok".
HuffOutcome(huff) ==
    IF PySlice(huff, 0, 8) # HuffMagic THEN "ValueError"
    ELSE IF Len(huff) < 16 THEN "struct.error"
    ELSE IF HuffOff1(huff) + 1024 > Len(huff) THEN "struct.error"
    ELSE IF \E k \in 0..255 : ~Dict1Asserts(HuffRaw1(huff, k))
         THEN "AssertionError"
    ELSE IF HuffOff2(huff) + 256 > Len(huff) THEN "partial"
    ELSE "ok"

\* self.dict1 = map(dict1_unpack, struct.unpack_from(">256L", huff, off1))
NewDict1(huff) == [k \in 1..256 |-> dict1_unpack(HuffRaw1(huff, k - 1))]

\* for codelen, mincode in enumerate((0,) + dict2[0::2]):
\*     self.mincode += (mincode << (32 - codelen),)
NewMincode(huff) ==
    [k \in 1..33 |->
        IF k = 1 THEN WShl(0, 32)
        ELSE WShl(HuffDict2(huff, 2 * (k - 2)), 32 - (k - 1))]

\* for codelen, maxcode in enumerate((0,) + dict2[1::2]):
\*     self.maxcode += (((maxcode + 1) << (32 - codelen)) - 1,)
NewMaxcode(huff) ==
    [k \in 1..33 |->
        IF k = 1 THEN WDec(WShl(1, 32))
        ELSE WDec(WShl(HuffDict2(huff, 2 * (k - 2) + 1) + 1, 32 - (k - 1)))]

(***************************************************************************)
(* Huffcdic.loadCdic                                                       *)
(***************************************************************************)

\* "CDIC\x00\x00\x00\x10"
CdicMagic == <<67, 68, 73, 67, 0, 0, 0, 16>>

\* phrases, bits = struct.unpack_from(">LL", cdic, 8)
CdicPhrases(cdic) == U32At(cdic, 8)

CdicBits(cdic) == U32At(cdic, 12)

\* The slot count without the cap by the phrases still missing.
CdicCountUncapped(phrases, bits, dlen) == 2^bits

\* n = min(1 << bits, phrases - len(self.dictionary))
CdicCount(phrases, bits, dlen) == Min(2^bits, phrases - dlen)

\* getslice(off): (cdic[18 + off : 18 + off + (blen & 0x7FFF)], blen & 0x8000)
getslice(cdic, off) ==
    LET blen == U16At(cdic, 16 + off) IN
    <<PySlice(cdic, 18 + off, 18 + off + (blen % 32768)),
      (blen \div 32768) * 32768>>

\* struct.unpack_from(">%dH" % n, cdic, 16), entry k of 0..n-1
CdicOffset(cdic, k) == U16At(cdic, 16 + 2 * k)

\* How loadCdic(cdic) ends with a dictionary of dlen slots (dlen = -1: the
\* object has no dictionary attribute).
CdicOutcome(cdic, dlen) ==
    IF PySlice(cdic, 0, 8) # CdicMagic THEN "ValueError"
    ELSE IF Len(cdic) < 16 THEN "struct.error"
    ELSE IF dlen < 0 THEN "AttributeError"
    ELSE LET n == CdicCount(CdicPhrases(cdic), CdicBits(cdic), dlen) IN
         IF n < 0 \/ 16 + 2 * n > Len(cdic) THEN "struct.error"
         ELSE IF \E k \in 0..(n - 1) : 16 + CdicOffset(cdic, k) + 2 > Len(cdic)
              THEN "struct.error"
         ELSE "ok"

\* map(getslice, struct.unpack_from(">%dH" % n, cdic, 16))
NewSlots(cdic, dlen) ==
    [k \in 1..CdicCount(CdicPhrases(cdic), CdicBits(cdic), dlen) |->
        getslice(cdic, CdicOffset(cdic, k - 1))]

(***************************************************************************)
(* The blobs and records the calls are made with                           *)
(***************************************************************************)

U16Bytes(v) == <<(v \div 256) % 256, v % 256>>

U32Bytes(v) ==
    <<(v \div 2^24) % 256, (v \div 65536) % 256, (v \div 256) % 256, v % 256>>

\* A fast-table entry <<codelen, term, maxcode>> as its 32-bit value:
\* maxcode in bits 8..31, term in bit 7, codelen in bits 0..4.
FastBytes(e) ==
    <<(e[3] \div 65536) % 256, (e[3] \div 256) % 256, e[3] % 256,
      e[1] + 128 * e[2]>>

\* A HUFF record: magic, off1 = 24, off2 = 1048, 8 unused bytes, the 256
\* fast-table entries, the 64 values (mincode, maxcode) of lengths 1..32.
MakeHuff(magic, fast, slow) ==
    [k \in 1..1304 |->
        IF k <= 8 THEN magic[k]
        ELSE IF k <= 12 THEN U32Bytes(24)[k - 8]
        ELSE IF k <= 16 THEN U32Bytes(1048)[k - 12]
        ELSE IF k <= 24 THEN 0
        ELSE IF k <= 1048
             THEN FastBytes(fast[(k - 25) \div 4])[((k - 25) % 4) + 1]
        ELSE U32Bytes(slow[(k - 1049) \div 4])[((k - 1049) % 4) + 1]]

\* Every code is 8 bits long and terminal: byte b is slot 3 - b.
Fast8 == [b \in 0..255 |-> <<8, 1, 3>>]

\* Codes 1, 01, 00: slots 0, 1, 2.
FastA == [b \in 0..255 |-> IF b >= 128 THEN <<1, 1, 1>> ELSE <<2, 1, 2>>]

\* As FastA above 63; below, 9-bit terminal entries, and for byte 0 a
\* non-terminal entry that the mincode table widens to 9 or 10 bits.
FastB ==
    [b \in 0..255 |->
        IF b >= 128 THEN <<1, 1, 1>>
        ELSE IF b >= 64 THEN <<2, 1, 2>>
        ELSE IF b >= 1 THEN <<9, 1, 5>>
        ELSE <<9, 0, 0>>]

\* A table with a zero code length (byte 7).
Fast0 == [b \in 0..255 |-> IF b = 7 THEN <<0, 1, 0>> ELSE FastA[b]]

\* A table with non-terminal entries of length 5 (bytes 0..7).
FastN == [b \in 0..255 |-> IF b < 8 THEN <<5, 0, 0>> ELSE FastA[b]]

SlowZero == [k \in 0..63 |-> 0]

\* mincode[9] = 1, maxcode[9] = 3, mincode[10] = 0, maxcode[10] = 3
SlowB ==
    [k \in 0..63 |-> IF k = 16 THEN 1 ELSE IF k = 17 \/ k = 19 THEN 3 ELSE 0]

\* mincode[5] = 1, maxcode[6] = 2
SlowN == [k \in 0..63 |-> IF k = 8 THEN 1 ELSE IF k = 11 THEN 2 ELSE 0]

BadMagic == <<72, 85, 70, 70, 0, 0, 0, 16>>

\* The HUFF records passed to loadHuff, as what they are built from: three
\* tables that load, a zero code length, a short non-terminal entry, a wrong
\* magic, and a record cut inside its second table.
HuffDescs ==
    << [magic |-> HuffMagic, fast |-> Fast8, slow |-> SlowZero, size |-> 1304],
       [magic |-> HuffMagic, fast |-> FastA, slow |-> SlowZero, size |-> 1304],
       [magic |-> HuffMagic, fast |-> FastB, slow |-> SlowB, size |-> 1304],
       [magic |-> HuffMagic, fast |-> Fast0, slow |-> SlowZero, size |-> 1304],
       [magic |-> HuffMagic, fast |-> FastN, slow |-> SlowN, size |-> 1304],
       [magic |-> BadMagic, fast |-> Fast8, slow |-> SlowZero, size |-> 1304],
       [magic |-> HuffMagic, fast |-> FastB, slow |-> SlowB, size |-> 1100] >>

HuffBlobs ==
    [k \in DOMAIN HuffDescs |->
        SubSeq(MakeHuff(HuffDescs[k].magic, HuffDescs[k].fast,
                        HuffDescs[k].slow), 1, HuffDescs[k].size)]

\* loadHuff on each of the records, worked out once: how it ends and what it
\* assigns.
HuffLoads ==
    [k \in DOMAIN HuffBlobs |->
        LET huff == HuffBlobs[k]
            out == HuffOutcome(huff)
        IN  [outcome |-> out,
             dict1 |-> IF out \in {"ok", "partial"} THEN NewDict1(huff)
                       ELSE <<>>,
             mincode |-> IF out = "ok" THEN NewMincode(huff) ELSE <<>>,
             maxcode |-> IF out = "ok" THEN NewMaxcode(huff) ELSE <<>>]]

RECURSIVE Flatten(_)
Flatten(ss) == IF ss = <<>> THEN <<>> ELSE Head(ss) \o Flatten(Tail(ss))

\* Where slot k of a CDIC record starts, counted from offset 16.
RECURSIVE SlotOffset(_, _)
SlotOffset(slots, k) ==
    IF k = 1 THEN 2 * Len(slots)
    ELSE SlotOffset(slots, k - 1) + 2 + Len(slots[k - 1][1])

\* A CDIC record: magic, phrases, bits, the offset table, and per slot
\* <<bytes, resolved>> a 16-bit length (bit 15: resolved) and the bytes.
MakeCdic(magic, phrases, bits, slots) ==
    magic \o U32Bytes(phrases) \o U32Bytes(bits)
    \o Flatten([k \in 1..Len(slots) |-> U16Bytes(SlotOffset(slots, k))])
    \o Flatten([k \in 1..Len(slots) |->
            U16Bytes(Len(slots[k][1]) + 32768 * slots[k][2]) \o slots[k][1]])

\* The CDIC records passed to loadCdic, as what they are built from: two of
\* a 4-phrase dictionary with 2 slots each, one of a 2-phrase dictionary with
\* 1 slot, one with a wrong magic. A slot is <<bytes, resolved>>; under Fast8
\* the byte b of an unresolved slot refers to slot 3 - b.
CdicDescs ==
    LET resolved(b) == <<b, 1>>
        packed(b) == <<b, 0>>
    IN  << [magic |-> CdicMagic, phrases |-> 4, bits |-> 1,
            slots |-> <<resolved(<<65>>), packed(<<3>>)>>],
           [magic |-> CdicMagic, phrases |-> 4, bits |-> 1,
            slots |-> <<packed(<<2, 3>>), packed(<<0>>)>>],
           [magic |-> CdicMagic, phrases |-> 2, bits |-> 0,
            slots |-> <<resolved(<<66>>)>>],
           [magic |-> BadMagic, phrases |-> 4, bits |-> 1,
            slots |-> <<resolved(<<65>>), packed(<<3>>)>>] >>

CdicBlobs ==
    [k \in DOMAIN CdicDescs |->
        MakeCdic(CdicDescs[k].magic, CdicDescs[k].phrases, CdicDescs[k].bits,
                 CdicDescs[k].slots)]

\* Bound: the longest enumerated record of the HUFF/CDIC decoder.
MaxRecLen == 1

\* The records passed to unpack: every record up to MaxRecLen over the bytes
\* 0..4, one that refers to a slot twice, one whose first code is widened
\* under FastB and whose second code is 1 bit long, and two that are longer
\* than the 32-bit window: 32 bits of 8-bit codes, and under FastA a 2-bit
\* code that ends one bit past the window.
HuffRecords ==
    UNION {[1..k -> 0..4] : k \in 0..MaxRecLen}
    \cup {<<2, 2>>, <<0, 192>>, <<3, 3, 3, 3>>, <<170, 170, 170, 170, 170>>}

(***************************************************************************)
(* Huffcdic: the loaders as operations on the object                       *)
(***************************************************************************)

HuffInit ==
    /\ i = <<>>
    /\ p = 0
    /\ o = <<>>
    /\ pstate = "idle"
    /\ prev = [p |-> 0, o |-> <<>>]
    /\ HuffFresh

\* An exception raised before the first assignment to self: the object is
\* as it was, with the dictionary emptied.
RaiseAfterReset ==
    /\ dictionary' = <<>>
    /\ UNCHANGED <<attrs, dict1, mincode, maxcode>>

\* An exception raised before the first assignment to self: the object is
\* as it was.
RaiseKeepsState == UNCHANGED <<attrs, dict1, mincode, maxcode, dictionary>>

Ended(op, arg, result, value) ==
    lastOp' = [op |-> op, arg |-> arg, result |-> result, value |-> value]

\* loadHuff(huff) runs to its end.
LoadHuffOk ==
    /\ stack = <<>>
    /\ \E k \in DOMAIN HuffBlobs :
        /\ HuffLoads[k].outcome = "ok"
        /\ dict1' = HuffLoads[k].dict1
        /\ mincode' = HuffLoads[k].mincode
        /\ maxcode' = HuffLoads[k].maxcode
        /\ Ended("loadHuff", k, "ok", <<>>)
    /\ dictionary' = <<>>
    /\ loaded' = <<>>
    /\ attrs' = {"dict1", "mincode", "maxcode", "dictionary"}
    /\ resolves' = <<>>
    /\ phraseSeen' = {}
    /\ last' = NoLookup
    /\ UNCHANGED <<stack, pvars, other>>

\* loadHuff(huff) raises struct.error reading dict2, after self.dict1 is set.
LoadHuffPartial ==
    /\ stack = <<>>
    /\ \E k \in DOMAIN HuffBlobs :
        /\ HuffLoads[k].outcome = "partial"
        /\ dict1' = HuffLoads[k].dict1
        /\ Ended("loadHuff", k, "struct.error", <<>>)
    /\ attrs' = attrs \cup {"dict1"}
    /\ last' = NoLookup
    /\ UNCHANGED <<mincode, maxcode, dictionary, resolves, phraseSeen, stack,
                   pvars, loaded, other>>

\* loadHuff(huff) raises ValueError (magic), struct.error (short record) or
\* AssertionError (dict1_unpack) before it assigns anything.
LoadHuffRaise ==
    /\ stack = <<>>
    /\ \E k \in DOMAIN HuffBlobs :
        /\ HuffLoads[k].outcome \notin {"ok", "partial"}
        /\ Ended("loadHuff", k, HuffLoads[k].outcome, <<>>)
    /\ RaiseKeepsState
    /\ last' = NoLookup
    /\ UNCHANGED <<resolves, phraseSeen, stack, pvars, loaded, other>>

\* len(self.dictionary), -1 when the object has no such attribute
DictLen == IF "dictionary" \in attrs THEN Len(dictionary) ELSE -1

\* loadCdic(cdic) runs to its end: self.dictionary += map(getslice, ...)
LoadCdicOk ==
    /\ stack = <<>>
    /\ \E k \in DOMAIN CdicBlobs :
        /\ CdicOutcome(CdicBlobs[k], DictLen) = "ok"
        /\ dictionary' = dictionary \o NewSlots(CdicBlobs[k], DictLen)
        /\ loaded' = loaded \o NewSlots(CdicBlobs[k], DictLen)
        /\ resolves' = [j \in 1..Len(dictionary') |->
                            IF j <= Len(resolves) THEN resolves[j] ELSE 0]
        /\ phraseSeen' = phraseSeen \cup {CdicPhrases(CdicBlobs[k])}
        /\ Ended("loadCdic", k, "ok", <<>>)
    /\ last' = NoLookup
    /\ UNCHANGED <<attrs, dict1, mincode, maxcode, stack, pvars, other>>

\* loadCdic(cdic) raises ValueError (magic), AttributeError (no dictionary
\* yet) or struct.error before it assigns anything.
LoadCdicRaise ==
    /\ stack = <<>>
    /\ \E k \in DOMAIN CdicBlobs :
        /\ CdicOutcome(CdicBlobs[k], DictLen) # "ok"
        /\ Ended("loadCdic", k, CdicOutcome(CdicBlobs[k], DictLen), <<>>)
    /\ RaiseKeepsState
    /\ last' = NoLookup
    /\ UNCHANGED <<resolves, phraseSeen, stack, pvars, loaded, other>>

(***************************************************************************)
(* Huffcdic.unpack                                                         *)
(***************************************************************************)

\* Whether q(data, pos) finds its 8 bytes (otherwise struct.error).
QOK(data, pos) == pos + 8 <= Len(data)

\* (x,) = q(data, pos): the 64-bit big-endian value, kept as its 8 bytes
Q(data, pos) == SubSeq(data, pos + 1, pos + 8)

XByte(x, k) == IF k >= 1 /\ k <= Len(x) THEN x[k] ELSE 0

\* The 16 bits of x that start `off` bits below its top bit.
Field16(x, off) ==
    LET j == off \div 8
        t == XByte(x, j + 1) * 65536 + XByte(x, j + 2) * 256 + XByte(x, j + 3)
    IN  (t \div 2^(8 - (off % 8))) % Limb

\* code = (x >> n) & ((1 << 32) - 1)
Code(x, n) == <<Field16(x, 32 - n), Field16(x, 48 - n)>>

\* while code < self.mincode[codelen]: codelen += 1
\* (33 stands for the IndexError of self.mincode[33])
RECURSIVE Widen(_, _)
Widen(code, codelen) ==
    IF codelen > 32 THEN codelen
    ELSE IF WLess(code, mincode[codelen + 1]) THEN Widen(code, codelen + 1)
    ELSE codelen

\* The frame of a call unpack(data): lines 114-120 (passes: history, the
\* loop iterations the call has completed)
NewFrame(data) ==
    LET padded == data \o <<0, 0, 0, 0, 0, 0, 0, 0>> IN
    [data |-> padded, bitsleft |-> Len(data) * 8, pos |-> 0,
     x |-> Q(padded, 0), n |-> 32, s |-> <<>>, r |-> 0, passes |-> 0]

\* The slot Python's dictionary[r] names: a negative r counts from the end.
SlotOf(r) == IF r < 0 THEN Len(dictionary) + r + 1 ELSE r + 1

\* The pass with the reload test n < 0 in place of n <= 0.
IterLateReload(f) ==
    LET reload == f.n < 0
        pos1 == IF reload THEN f.pos + 4 ELSE f.pos
        qok == ~reload \/ QOK(f.data, pos1)
        x1 == IF reload /\ qok THEN Q(f.data, pos1) ELSE f.x
        n1 == IF reload THEN f.n + 32 ELSE f.n
        code == Code(x1, n1)
        idx == code[1] \div 256
        entry == dict1[idx + 1]
        term == entry[2] # 0
        cl == IF term THEN entry[1] ELSE Widen(code, entry[1])
        mc == IF term THEN entry[3] ELSE maxcode[cl + 1]
        bl == f.bitsleft - cl
        r == WSubShr(mc, code, 32 - cl)
        how == IF ~qok THEN "q"
               ELSE IF "dict1" \notin attrs THEN "self.dict1"
               ELSE IF ~term /\ "mincode" \notin attrs THEN "self.mincode"
               ELSE IF cl > 32 THEN "mincode[codelen]"
               ELSE IF ~term /\ "maxcode" \notin attrs THEN "self.maxcode"
               ELSE IF bl < 0 THEN "break"
               ELSE IF "dictionary" \notin attrs THEN "self.dictionary"
               ELSE IF ~PyIndexOK(dictionary, r) THEN "dictionary[r]"
               ELSE IF dictionary[SlotOf(r)] = None THEN "slice, flag = None"
               ELSE "ok"
        looked == how \in {"break", "self.dictionary", "dictionary[r]",
                           "slice, flag = None", "ok"}
        indexed == how \in {"self.dictionary", "dictionary[r]",
                            "slice, flag = None", "ok"}
    IN  [how |-> how, looked |-> looked,
         pos |-> pos1, x |-> x1,
         n |-> IF looked THEN n1 - cl ELSE n1,
         bitsleft |-> IF looked THEN bl ELSE f.bitsleft,
         idx |-> IF looked THEN idx ELSE 0,
         codelen |-> IF looked THEN cl ELSE 0,
         maxcode |-> IF looked THEN mc ELSE <<0, 0>>,
         widened |-> IF looked THEN cl - entry[1] ELSE 0,
         r |-> IF indexed THEN r ELSE 0]

\* One pass of the while loop of frame f, lines 122-141, up to the fetch of
\* the slot. `how` is where the pass ends: "ok" (slot fetched), "break", or
\* the statement that raises.
Iter(f) ==
    LET reload == f.n <= 0
        pos1 == IF reload THEN f.pos + 4 ELSE f.pos
        qok == ~reload \/ QOK(f.data, pos1)
        x1 == IF reload /\ qok THEN Q(f.data, pos1) ELSE f.x
        n1 == IF reload THEN f.n + 32 ELSE f.n
        code == Code(x1, n1)
        idx == code[1] \div 256
        entry == dict1[idx + 1]
        term == entry[2] # 0
        cl == IF term THEN entry[1] ELSE Widen(code, entry[1])
        mc == IF term THEN entry[3] ELSE maxcode[cl + 1]
        bl == f.bitsleft - cl
        r == WSubShr(mc, code, 32 - cl)
        how == IF ~qok THEN "q"
               ELSE IF "dict1" \notin attrs THEN "self.dict1"
               ELSE IF ~term /\ "mincode" \notin attrs THEN "self.mincode"
               ELSE IF cl > 32 THEN "mincode[codelen]"
               ELSE IF ~term /\ "maxcode" \notin attrs THEN "self.maxcode"
               ELSE IF bl < 0 THEN "break"
               ELSE IF "dictionary" \notin attrs THEN "self.dictionary"
               ELSE IF ~PyIndexOK(dictionary, r) THEN "dictionary[r]"
               ELSE IF dictionary[SlotOf(r)] = None THEN "slice, flag = None"
               ELSE "ok"
        looked == how \in {"break", "self.dictionary", "dictionary[r]",
                           "slice, flag = None", "ok"}
        indexed == how \in {"self.dictionary", "dictionary[r]",
                            "slice, flag = None", "ok"}
    IN  [how |-> how, looked |-> looked,
         pos |-> pos1, x |-> x1,
         n |-> IF looked THEN n1 - cl ELSE n1,
         bitsleft |-> IF looked THEN bl ELSE f.bitsleft,
         idx |-> IF looked THEN idx ELSE 0,
         codelen |-> IF looked THEN cl ELSE 0,
         maxcode |-> IF looked THEN mc ELSE <<0, 0>>,
         widened |-> IF looked THEN cl - entry[1] ELSE 0,
         r |-> IF indexed THEN r ELSE 0]

\* The exception a pass ends in.
Raised(how) ==
    IF how = "q" THEN "struct.error"
    ELSE IF how \in {"mincode[codelen]", "dictionary[r]"} THEN "IndexError"
    ELSE IF how = "slice, flag = None" THEN "TypeError"
    ELSE "AttributeError"

\* The frame after a pass that forgets bitsleft -= codelen.
AdvanceKeepBits(f, it, bytes) ==
    [f EXCEPT !.pos = it.pos, !.x = it.x, !.n = it.n,
              !.r = it.r, !.s = @ \o bytes, !.passes = @ + 1]

\* Frame f after the pass `it`, with `bytes` appended to s.
Advance(f, it, bytes) ==
    [f EXCEPT !.pos = it.pos, !.x = it.x, !.n = it.n,
              !.bitsleft = it.bitsleft, !.r = it.r, !.s = @ \o bytes,
              !.passes = @ + 1]

Lookup(it, kind) ==
    [kind |-> IF it.looked THEN kind ELSE "failed", idx |-> it.idx, codelen |-> it.codelen,
     maxcode |-> it.maxcode, widened |-> it.widened, r |-> it.r,
     dlen |-> Len(dictionary)]

\* (slice, 1) without the flag
Unflagged(slice) == <<slice, 0>>

\* (slice, 1)
Resolved(slice) == <<slice, 1>>

Depth == Len(stack)

Top == stack[Depth]

\* A caller (not the decoder itself) calls unpack(data).
HuffUnpackCall ==
    /\ stack = <<>>
    /\ \E data \in HuffRecords :
        /\ stack' = <<NewFrame(data)>>
        /\ lastOp' = [op |-> "unpack", arg |-> data, result |-> "running",
                      value |-> <<>>]
    /\ last' = NoLookup
    /\ UNCHANGED <<attrs, dict1, mincode, maxcode, dictionary, resolves,
                   phraseSeen, pvars, loaded, other>>

\* A pass that finds the slot resolved: slice, flag = self.dictionary[r];
\* s += slice
HuffAppendCached ==
    /\ stack # <<>>
    /\ LET it == Iter(Top) IN
        /\ it.how = "ok"
        /\ dictionary[SlotOf(it.r)][2] # 0
        /\ stack' = [stack EXCEPT
                        ![Depth] = Advance(Top, it, dictionary[SlotOf(it.r)][1])]
        /\ last' = Lookup(it, "cached")
    /\ UNCHANGED <<attrs, dict1, mincode, maxcode, dictionary, lastOp,
                   resolves, phraseSeen, pvars, loaded, other>>

\* The recursive call made without marking the slot first.
HuffResolveUnmarked ==
    /\ stack # <<>>
    /\ LET it == Iter(Top) IN
        /\ it.how = "ok"
        /\ dictionary[SlotOf(it.r)][2] = 0
        /\ stack' = Append([stack EXCEPT ![Depth] = Advance(Top, it, <<>>)],
                           NewFrame(dictionary[SlotOf(it.r)][1]))
        /\ resolves' = [resolves EXCEPT ![SlotOf(it.r)] = @ + 1]
        /\ last' = Lookup(it, "resolve")
    /\ UNCHANGED <<attrs, dict1, mincode, maxcode, dictionary, lastOp,
                   phraseSeen, pvars, loaded, other>>

\* A pass that finds the slot unresolved: self.dictionary[r] = None and the
\* call self.unpack(slice)
HuffResolveCall ==
    /\ stack # <<>>
    /\ LET it == Iter(Top) IN
        /\ it.how = "ok"
        /\ dictionary[SlotOf(it.r)][2] = 0
        /\ dictionary' = [dictionary EXCEPT ![SlotOf(it.r)] = None]
        /\ stack' = Append([stack EXCEPT ![Depth] = Advance(Top, it, <<>>)],
                           NewFrame(dictionary[SlotOf(it.r)][1]))
        /\ resolves' = [resolves EXCEPT ![SlotOf(it.r)] = @ + 1]
        /\ last' = Lookup(it, "resolve")
    /\ UNCHANGED <<attrs, dict1, mincode, maxcode, lastOp, phraseSeen, pvars, loaded, other>>

\* The return of a recursive call whose caller stores the slice as it was
\* before the call: self.dictionary[r] = (undecoded slice, 1)
HuffReturnNestedRaw ==
    /\ Depth >= 2
    /\ LET it == Iter(Top)
           caller == stack[Depth - 1]
       IN
        /\ it.how = "break"
        /\ dictionary' =
              [dictionary EXCEPT
                 ![SlotOf(caller.r)] = Resolved(loaded[SlotOf(caller.r)][1])]
        /\ stack' = [k \in 1..(Depth - 1) |->
                        IF k = Depth - 1
                        THEN [caller EXCEPT !.s = @ \o Top.s]
                        ELSE stack[k]]
        /\ last' = Lookup(it, "break")
    /\ UNCHANGED <<attrs, dict1, mincode, maxcode, lastOp, resolves,
                   phraseSeen, pvars, loaded, other>>

\* A pass of a recursive call that ends in break: return s, and in the
\* caller self.dictionary[r] = (slice, 1); s += slice
HuffReturnNested ==
    /\ Depth >= 2
    /\ LET it == Iter(Top)
           caller == stack[Depth - 1]
       IN
        /\ it.how = "break"
        /\ dictionary' = [dictionary EXCEPT ![SlotOf(caller.r)] = Resolved(Top.s)]
        /\ stack' = [k \in 1..(Depth - 1) |->
                        IF k = Depth - 1
                        THEN [caller EXCEPT !.s = @ \o Top.s]
                        ELSE stack[k]]
        /\ last' = Lookup(it, "break")
    /\ UNCHANGED <<attrs, dict1, mincode, maxcode, lastOp, resolves,
                   phraseSeen, pvars, loaded, other>>

\* A pass of the outermost call that ends in break: return s
HuffReturnTop ==
    /\ Depth = 1
    /\ LET it == Iter(Top) IN
        /\ it.how = "break"
        /\ lastOp' = [lastOp EXCEPT !.result = "returned", !.value = Top.s]
        /\ last' = Lookup(it, "break")
    /\ stack' = <<>>
    /\ UNCHANGED <<attrs, dict1, mincode, maxcode, dictionary, resolves,
                   phraseSeen, pvars, loaded, other>>

\* A pass that raises: nothing catches the exception, every active call ends.
HuffRaise ==
    /\ stack # <<>>
    /\ LET it == Iter(Top) IN
        /\ it.how \notin {"ok", "break"}
        /\ lastOp' = [lastOp EXCEPT !.result = Raised(it.how)]
        /\ last' = Lookup(it, "raise")
    /\ stack' = <<>>
    /\ UNCHANGED <<attrs, dict1, mincode, maxcode, dictionary, resolves,
                   phraseSeen, pvars, loaded, other>>

HuffNext ==
    \/ LoadHuffOk
    \/ LoadHuffPartial
    \/ LoadHuffRaise
    \/ LoadCdicOk
    \/ LoadCdicRaise
    \/ HuffUnpackCall
    \/ HuffAppendCached
    \/ HuffResolveCall
    \/ HuffReturnNested
    \/ HuffReturnTop
    \/ HuffRaise

HuffSpec == HuffInit /\ [][HuffNext]_vars

\* The decoder as MobiBook.unpackFunction (mobi.py) uses it: the HUFF record
\* and the CDIC records are all loaded before the first record is decoded, so
\* no load that keeps the dictionary meets one that unpack has written to.
FixedDictNext ==
    \/ LoadHuffOk
    \/ dictionary = loaded /\ LoadHuffPartial
    \/ LoadHuffRaise
    \/ dictionary = loaded /\ LoadCdicOk
    \/ dictionary = loaded /\ LoadCdicRaise
    \/ HuffUnpackCall
    \/ HuffAppendCached
    \/ HuffResolveCall
    \/ HuffReturnNested
    \/ HuffReturnTop
    \/ HuffRaise

FixedDictSpec == HuffInit /\ [][FixedDictNext]_vars

\* The running call's slots in resolution, and the suspended call's.
Resolving == {SlotOf(stack[k].r) : k \in 1..(Depth - 1)}

OtherResolving == {SlotOf(other.stack[k].r) : k \in 1..(Len(other.stack) - 1)}

\* Two threads call unpack on one decoder. The interpreter suspends the
\* running thread between two loop iterations of a recursive call (after
\* line 142 marked a slot, before line 144 stores its bytes) and runs the
\* other thread; when the running thread's call has ended, the suspended one
\* goes on.
ConcSwitch ==
    /\ Depth >= 2 \/ (stack = <<>> /\ other.stack # <<>>)
    /\ stack' = other.stack
    /\ lastOp' = other.lastOp
    /\ last' = other.last
    /\ other' = IF stack = <<>> THEN NoCall
                ELSE [stack |-> stack, lastOp |-> lastOp, last |-> last]
    /\ UNCHANGED <<attrs, dict1, mincode, maxcode, dictionary, resolves,
                   phraseSeen, loaded, pvars>>

\* The loads are made while no thread is decoding.
ConcNext ==
    \/ other.stack = <<>> /\ LoadHuffOk
    \/ other.stack = <<>> /\ LoadHuffPartial
    \/ other.stack = <<>> /\ LoadHuffRaise
    \/ other.stack = <<>> /\ LoadCdicOk
    \/ other.stack = <<>> /\ LoadCdicRaise
    \/ HuffUnpackCall
    \/ HuffAppendCached
    \/ HuffResolveCall
    \/ HuffReturnNested
    \/ HuffReturnTop
    \/ HuffRaise
    \/ ConcSwitch

ConcSpec == HuffInit /\ [][ConcNext]_vars


(***************************************************************************)
(* Palmdoc: the last loop iteration, read back from the history variable   *)
(***************************************************************************)

\* An iteration has run (every iteration advances p; the return does not).
Stepped == p > prev.p

\* The control byte of the last iteration.
LastC == i[prev.p + 1]

\* The output length before the last iteration.
LastL == Len(prev.o)

\* The last iteration decoded a two-byte back-reference.
LastIsBackref ==
    /\ Stepped
    /\ LastC >= 128 /\ LastC < 192
    /\ prev.p + 1 < Len(i)

LastM == Distance(LastC, i[prev.p + 2])

LastN == RunLength(LastC, i[prev.p + 2])

\* The last iteration would have read past the end of the input or before
\* the start of the output.
LastOverread ==
    /\ Stepped
    /\ \/ LastC >= 1 /\ LastC <= 8 /\ Len(i) - (prev.p + 1) < LastC
       \/ LastC >= 128 /\ LastC < 192 /\ prev.p + 1 = Len(i)
       \/ LastIsBackref /\ LastM > LastL

\* The decoding the claim C9 describes, control byte by control byte.
RECURSIVE Expected(_, _)
Expected(inp, k) ==
    IF k >= Len(inp) THEN <<>>
    ELSE LET c == inp[k + 1] IN
         IF c >= 1 /\ c <= 8
         THEN SubSeq(inp, k + 2, k + 1 + c) \o Expected(inp, k + 1 + c)
         ELSE IF c < 128 THEN <<c>> \o Expected(inp, k + 1)
         ELSE <<32, c - 128>> \o Expected(inp, k + 1)

\* No byte 128..191 in control position, every literal run complete.
RECURSIVE LiteralOnly(_, _)
LiteralOnly(inp, k) ==
    IF k >= Len(inp) THEN TRUE
    ELSE LET c == inp[k + 1] IN
         IF c >= 1 /\ c <= 8
         THEN k + 1 + c <= Len(inp) /\ LiteralOnly(inp, k + 1 + c)
         ELSE IF c >= 128 /\ c < 192 THEN FALSE
         ELSE LiteralOnly(inp, k + 1)

(***************************************************************************)
(* Claims about Palmdoc (checked under PalmSpec)                           *)
(***************************************************************************)

\* C1 as stated: a back-reference with 1 <= distance <= length and
\* distance <= output length appends `length` copies of the one byte that
\* stood `distance` positions before the end when the back-reference started.
C1_FixedOffsetRun ==
    (LastIsBackref /\ 1 <= LastM /\ LastM <= LastN /\ LastM <= LastL)
        => o = prev.o \o [z \in 1..LastN |-> prev.o[LastL - LastM + 1]]

\* C1 amended: such a back-reference keeps the output so far and appends
\* exactly `length` bytes, each equal to the byte `distance` positions before
\* it in the output as grown so far (the offset is taken anew on every pass).
C1_RollingRun ==
    (LastIsBackref /\ 1 <= LastM /\ LastM <= LastN /\ LastM <= LastL)
        => /\ pstate # "raised"
           /\ Len(o) = LastL + LastN
           /\ SubSeq(o, 1, LastL) = prev.o
           /\ \A k \in 1..LastN : o[LastL + k] = o[LastL + k - LastM]

\* C1 witness: a fill with distance >= 2 over two differing bytes has run.
C1_Witness ==
    /\ LastIsBackref /\ 2 <= LastM /\ LastM <= LastN /\ LastM <= LastL
    /\ prev.o[LastL - LastM + 1] # prev.o[LastL - LastM + 2]
    /\ Len(o) = LastL + LastN

\* C2 as stated: an iteration that would read past the end of the input or
\* before the start of the output ends the call in an error.
C2_OverreadRaises == LastOverread => pstate = "raised"

\* C9: a record without back-references and with complete literal runs
\* decodes, without error, to the concatenation the claim describes; the two
\* sample records decode to "Hello " and " A".
C9_LiteralDecoding ==
    /\ LiteralOnly(i, 0) => pstate # "raised"
    /\ (pstate = "returned" /\ LiteralOnly(i, 0)) => o = Expected(i, 0)
    /\ (pstate = "returned" /\ i = HelloRecord)
            => o = <<72, 101, 108, 108, 111, 32>>
    /\ (pstate = "returned" /\ i = <<193>>) => o = <<32, 65>>

\* C9 witness: a record mixing a literal run, a literal and a space escape
\* has been decoded.
C9_Witness ==
    /\ pstate = "returned"
    /\ LiteralOnly(i, 0)
    /\ \E a, b, c \in 1..Len(i) :
          /\ a < b /\ b < c
          /\ i[a] = 2 /\ i[c] = 193
    /\ Len(o) > Len(i)

\* C10: a back-reference with length < distance <= L consumes two input
\* bytes, keeps the first L output bytes and appends exactly
\* output[L-distance .. L-distance+length-1].
C10_BulkCopy ==
    (LastIsBackref /\ LastN < LastM /\ LastM <= LastL)
        => /\ pstate # "raised"
           /\ p = prev.p + 2
           /\ Len(o) = LastL + LastN
           /\ SubSeq(o, 1, LastL) = prev.o
           /\ \A k \in 1..LastN : o[LastL + k] = prev.o[LastL - LastM + k]

\* C10 witness: a bulk copy from inside the output has run.
C10_Witness ==
    /\ LastIsBackref /\ LastN < LastM /\ LastM <= LastL
    /\ Len(o) = LastL + LastN

(***************************************************************************)
(* Claims about Huffcdic (checked under HuffSpec)                          *)
(***************************************************************************)

\* A slot that holds resolved bytes (not None, flag set).
IsResolved(slot) == slot # None /\ slot[2] # 0

\* The step is a pass of an unpack call that fetched a slot it found
\* resolved / started the recursive decoding of a slot.
CachedStep == stack # <<>> /\ Len(stack') = Depth /\ last'.kind = "cached"

ResolveStep == stack # <<>> /\ Len(stack') = Depth + 1

\* The step is the return of a recursive call to its caller.
NestedReturnStep == Depth >= 2 /\ Len(stack') = Depth - 1

\* C3: over any sequence of unpack calls no slot is recursively decoded more
\* than once; the return of the recursive call stores (decoded bytes, 1) in
\* the slot and appends the bytes; a reference to a resolved slot appends
\* the stored bytes without a call and without touching the dictionary; a
\* slot already decoded once never starts a call again; and no call on the
\* decoder other than loadHuff changes a resolved slot.
C3_ResolvedOnce ==
    /\ [](\A k \in DOMAIN resolves : resolves[k] <= 1)
    /\ [][ /\ NestedReturnStep =>
                /\ dictionary'[SlotOf(stack[Depth - 1].r)] = <<Top.s, 1>>
                /\ stack'[Depth - 1].s = stack[Depth - 1].s \o Top.s
           /\ CachedStep =>
                /\ IsResolved(dictionary[SlotOf(last'.r)])
                /\ stack'[Depth].s = Top.s \o dictionary[SlotOf(last'.r)][1]
                /\ dictionary' = dictionary
                /\ resolves' = resolves
           /\ ResolveStep =>
                /\ resolves[SlotOf(last'.r)] = 0
                /\ ~IsResolved(dictionary[SlotOf(last'.r)])
           /\ lastOp'.op # "loadHuff" =>
                \A k \in DOMAIN dictionary :
                    IsResolved(dictionary[k]) =>
                        k \in DOMAIN dictionary' /\ dictionary'[k] = dictionary[k]
         ]_vars

\* C3 witness: a pass has appended the bytes of a slot that was loaded
\* unresolved and resolved by one recursive decoding.
C3_Witness ==
    /\ last.kind = "cached"
    /\ stack # <<>>
    /\ resolves[SlotOf(last.r)] = 1
    /\ dictionary[SlotOf(last.r)][2] = 1

\* C4: loadHuff and loadCdic given a blob with a wrong magic raise
\* ValueError and leave dict1, mincode, maxcode and the dictionary (and the
\* set of attributes the object has) as they were.
C4_BadMagicKeepsState ==
    /\ [](lastOp.op = "loadHuff" /\ HuffDescs[lastOp.arg].magic # HuffMagic
            => lastOp.result = "ValueError")
    /\ [](lastOp.op = "loadCdic" /\ CdicDescs[lastOp.arg].magic # CdicMagic
            => lastOp.result = "ValueError")
    /\ [][ (lastOp'.op \in {"loadHuff", "loadCdic"}
              /\ lastOp'.result = "ValueError")
            => UNCHANGED <<attrs, dict1, mincode, maxcode, dictionary>> ]_vars

\* C4 witness: loadHuff has failed on a wrong magic on a decoder whose
\* tables and dictionary were loaded and used before.
C4_Witness ==
    /\ lastOp.op = "loadHuff" /\ lastOp.result = "ValueError"
    /\ "dict1" \in attrs
    /\ \E k \in DOMAIN dictionary : dictionary[k] # None /\ dictionary[k][2] = 1

\* C5 as stated: a pass whose index r is outside 0..len(dictionary)-1 fails;
\* it never fetches the bytes of a slot.
C5_OutOfRangeFails ==
    last.kind \in {"cached", "resolve"} => (0 <= last.r /\ last.r < last.dlen)

\* What the fast table of each HUFF record declares (from what the record is
\* built from): a zero code length, a terminal entry longer than 8 bits, a
\* non-terminal entry of at most 8 bits.
HuffDefects ==
    [k \in DOMAIN HuffDescs |->
        LET fast == HuffDescs[k].fast IN
        [zero |-> \E b \in 0..255 : fast[b][1] = 0,
         longTerminal |-> \E b \in 0..255 : fast[b][2] = 1 /\ fast[b][1] > 8,
         shortNonTerminal |->
            \E b \in 0..255 : fast[b][2] = 0 /\ fast[b][1] <= 8,
         whole |-> HuffDescs[k].magic = HuffMagic /\ HuffDescs[k].size = 1304]]

\* C6 as stated: a whole record with the right magic is rejected exactly
\* when an entry has code length 0 or a terminal entry has code length > 8.
C6_RejectsLongTerminal ==
    (lastOp.op = "loadHuff" /\ HuffDefects[lastOp.arg].whole)
        => (lastOp.result # "ok"
              <=> (HuffDefects[lastOp.arg].zero
                     \/ HuffDefects[lastOp.arg].longTerminal))

\* C6 amended: a whole record with the right magic is rejected (with
\* AssertionError) exactly when an entry has code length 0 or an entry of
\* code length <= 8 is not terminal; otherwise it is loaded.
C6_RejectsShortNonTerminal ==
    (lastOp.op = "loadHuff" /\ HuffDefects[lastOp.arg].whole)
        => /\ lastOp.result \in {"ok", "AssertionError"}
           /\ lastOp.result = "AssertionError"
                <=> (HuffDefects[lastOp.arg].zero
                       \/ HuffDefects[lastOp.arg].shortNonTerminal)
           /\ lastOp.result = "ok" => dict1 = NewDict1(HuffBlobs[lastOp.arg])

\* C6 witness: a record whose only defect is a non-terminal entry of length
\* <= 8 has been rejected.
C6_Witness ==
    /\ lastOp.op = "loadHuff" /\ lastOp.result = "AssertionError"
    /\ HuffDefects[lastOp.arg].whole
    /\ HuffDefects[lastOp.arg].shortNonTerminal
    /\ ~HuffDefects[lastOp.arg].zero

\* C7: every loaded fast table has code lengths 1..31 and only terminal
\* entries up to length 8; and a pass whose fast-table entry has code length
\* <= 8 does not widen: it uses the entry's code length and maxcode.
C7_ShortCodesFromFastTable ==
    /\ "dict1" \in attrs =>
          \A k \in 1..256 :
              /\ dict1[k][1] >= 1 /\ dict1[k][1] <= 31
              /\ dict1[k][1] <= 8 => dict1[k][2] # 0
    /\ (last.kind \in {"break", "cached", "resolve", "raise"}
          /\ dict1[last.idx + 1][1] <= 8)
        => /\ last.widened = 0
           /\ last.codelen = dict1[last.idx + 1][1]
           /\ last.maxcode = dict1[last.idx + 1][3]

\* C7 witness: under a table that also has non-terminal entries, a pass has
\* decoded a code of at most 8 bits and fetched its slot.
C7_Witness ==
    /\ last.kind = "cached"
    /\ dict1[last.idx + 1][1] <= 8
    /\ \E k \in 1..256 : dict1[k][2] = 0

\* C8: a successful loadCdic, when every blob loaded since loadHuff
\* declares the same phrase count P, appends exactly min(2^bits, P - length
\* before) slots, the blob's first slots in order, keeps the earlier slots,
\* and never makes the dictionary longer than P.
C8_LoadCdicAppends ==
    /\ [](\A P \in phraseSeen : phraseSeen = {P} => Len(dictionary) <= P)
    /\ [][ (lastOp'.op = "loadCdic" /\ lastOp'.result = "ok"
              /\ phraseSeen' = {CdicDescs[lastOp'.arg].phrases})
            => LET d == CdicDescs[lastOp'.arg]
                   before == Len(dictionary)
                   n == Min(2^d.bits, d.phrases - before)
               IN  /\ Len(dictionary') = before + n
                   /\ SubSeq(dictionary', 1, before) = dictionary
                   /\ \A j \in 1..n :
                        dictionary'[before + j]
                            = <<d.slots[j][1], 32768 * d.slots[j][2]>>
                   /\ Len(dictionary') <= d.phrases ]_vars

\* C8 witness: the 4-phrase dictionary is full and the last loadCdic, of the
\* first blob, succeeded although the last two slots are not that blob's:
\* it appended nothing.
C8_Witness ==
    /\ lastOp.op = "loadCdic" /\ lastOp.result = "ok" /\ lastOp.arg = 1
    /\ phraseSeen = {4}
    /\ Len(dictionary) = 4
    /\ dictionary[3] = <<CdicDescs[2].slots[1][1], 0>>


\* The slots still to be resolved, and the bits the active calls have left
\* (plus one per call): the pair falls, in lexicographic order, with every
\* step of a decode that goes on.
Unresolved ==
    Cardinality({k \in DOMAIN dictionary :
                    dictionary[k] # None /\ dictionary[k][2] = 0})

RECURSIVE BitsToGo(_)
BitsToGo(st) ==
    IF st = <<>> THEN 0 ELSE Head(st).bitsleft + 1 + BitsToGo(Tail(st))

\* C11: the slots in resolution are marked None and pairwise different, so
\* the recursion is at most one call per slot deep; a reference to a slot
\* in resolution ends the whole decode with TypeError and starts no
\* recursive call; and no decode runs forever: every step that does not
\* end the decode lowers the pair
\* (slots still to be resolved, bits the active calls have left), which
\* never goes below (0, 0).
C11_CycleFails ==
    /\ [](/\ \A k \in 1..(Depth - 1) : dictionary[SlotOf(stack[k].r)] = None
          /\ \A j, k \in 1..(Depth - 1) :
                j # k => SlotOf(stack[j].r) # SlotOf(stack[k].r)
          /\ Depth <= Len(dictionary) + 1
          /\ \A k \in 1..Depth : stack[k].bitsleft >= 0)
    /\ [][ (/\ stack # <<>>
            /\ Iter(Top).how \in {"ok", "slice, flag = None"}
            /\ SlotOf(Iter(Top).r) \in Resolving)
           => /\ stack' = <<>>
              /\ lastOp'.result = "TypeError"
              /\ resolves' = resolves ]_vars
    /\ [][ (stack # <<>> /\ stack' # <<>>)
           => \/ Unresolved' < Unresolved
              \/ /\ Unresolved' = Unresolved
                 /\ BitsToGo(stack') < BitsToGo(stack) ]_vars

\* C11 witness: two nested resolutions deep, the next code refers to the
\* slot the outermost call is resolving (a cycle through another slot).
C11_Witness ==
    /\ Depth >= 3
    /\ Iter(Top).how = "slice, flag = None"
    /\ SlotOf(Iter(Top).r) = SlotOf(stack[1].r)
    /\ SlotOf(stack[2].r) # SlotOf(stack[1].r)


\* The shift counter n of the pass at the moment the code is extracted
\* (line 126): Iter gives n after the code length is subtracted.
ExtractN(it) == IF it.looked THEN it.n + it.codelen ELSE it.n

\* C15: in every pass of every unpack call the shift counter n is in 1..32
\* when the code is extracted, and the window is read at an offset pos that
\* is a multiple of 4 and at most len(record), so the 8 bytes read lie
\* inside the record extended by the 8 zero bytes; the same holds of the
\* position of every call that waits for a recursive call.
C15_WindowInBounds ==
    /\ stack # <<>> =>
          LET it == Iter(Top) IN
          /\ 1 <= ExtractN(it) /\ ExtractN(it) <= 32
          /\ it.pos % 4 = 0
          /\ it.pos <= Len(Top.data) - 8
          /\ it.how # "q"
    /\ \A k \in 1..Depth :
          /\ stack[k].pos % 4 = 0
          /\ stack[k].pos <= Len(stack[k].data) - 8
          /\ stack[k].n >= -31 /\ stack[k].n <= 32

\* C15 witness: a pass reloads the window at pos = 4 after a code that ended
\* one bit past the first 32 bits, and extracts its code with n = 31.
C15_Witness ==
    /\ stack # <<>>
    /\ Top.n = -1
    /\ Iter(Top).pos = 4
    /\ ExtractN(Iter(Top)) = 31
    /\ Iter(Top).looked


\* len(record) of a call: its data without the 8 zero bytes.
RecordLen(f) == Len(f.data) - 8

\* Every slot holds resolved bytes.
FullyResolved == \A k \in DOMAIN dictionary : IsResolved(dictionary[k])

\* loadHuff has run to its end.
TableLoaded == {"dict1", "mincode", "maxcode", "dictionary"} \subseteq attrs

\* C14: a call in its loop has a counter >= 0 and has completed at most
\* 8*len(record) - counter iterations; an iteration that goes on lowers the
\* counter by at least 1; the iteration in which the counter becomes
\* negative ends the call, which returns the output as it was before that
\* iteration, after at most 8*len(record)+1 codes; and with a loaded table
\* and a fully resolved dictionary a call makes no recursive call and, if
\* every index is in the dictionary and every code length at most 32, it
\* returns.
C14_LoopTerminates ==
    /\ [](\A k \in 1..Depth :
            /\ stack[k].bitsleft >= 0
            /\ stack[k].passes + stack[k].bitsleft <= 8 * RecordLen(stack[k]))
    /\ [](FullyResolved => Depth <= 1)
    /\ [][ stack # <<>> =>
            LET it == Iter(Top) IN
            /\ (Len(stack') >= Depth) =>
                  /\ stack'[Depth].bitsleft <= Top.bitsleft - 1
                  /\ stack'[Depth].passes = Top.passes + 1
            /\ (it.looked /\ it.bitsleft < 0) =>
                  /\ Len(stack') = Depth - 1
                  /\ Top.passes + 1 <= 8 * RecordLen(Top) + 1
                  /\ Depth = 1 => /\ lastOp'.result = "returned"
                                  /\ lastOp'.value = Top.s
                  /\ Depth >= 2 =>
                        dictionary'[SlotOf(stack[Depth - 1].r)] = <<Top.s, 1>>
            /\ (it.looked /\ it.bitsleft >= 0) => lastOp'.result # "returned"
            /\ (TableLoaded /\ FullyResolved
                  /\ it.how \notin {"mincode[codelen]", "dictionary[r]"})
                => it.how \in {"ok", "break"} ]_vars

\* C14 witness: with a fully resolved dictionary, the 5-byte record of 1- and
\* 2-bit codes has returned 20 phrases; the 21st code drove the counter
\* negative.
C14_Witness ==
    /\ lastOp.op = "unpack" /\ lastOp.result = "returned"
    /\ Len(lastOp.arg) = 5
    /\ Len(lastOp.value) = 20
    /\ last.kind = "break"
    /\ FullyResolved


\* The reference decoder: the loop of unpack over the dictionary as loaded,
\* every unresolved slot decoded afresh at every reference, nothing stored.
\* path: the slots whose decoding is in progress. The result is
\* <<"bytes", s>>, <<"error", <<>>>> or, on a reference to a slot in path,
\* <<"cycle", <<>>>>.
RECURSIVE RefUnpack(_, _)
RefUnpack(f, path) ==
    LET it == Iter(f) IN
    IF it.how = "break" THEN <<"bytes", f.s>>
    ELSE IF it.how \notin {"ok", "slice, flag = None"} THEN <<"error", <<>>>>
    ELSE LET k == SlotOf(it.r)
             slot == loaded[k]
         IN  IF slot[2] # 0 THEN RefUnpack(Advance(f, it, slot[1]), path)
             ELSE IF k \in path THEN <<"cycle", <<>>>>
             ELSE LET sub == RefUnpack(NewFrame(slot[1]), path \cup {k}) IN
                  IF sub[1] # "bytes" THEN sub
                  ELSE RefUnpack(Advance(f, it, sub[2]), path)

\* No unresolved slot of the loaded dictionary leads back to itself.
Acyclic ==
    \A k \in DOMAIN loaded :
        loaded[k][2] = 0 => RefUnpack(NewFrame(loaded[k][1]), {k})[1] # "cycle"

\* C13: with table and dictionary loaded before the first decode, whatever
\* calls were made before, an unpack call that returns returns the bytes the
\* reference decoder gives for its record, and a call that raises is of a
\* record the reference decoder gives no bytes for.
C13_SameAsUncached ==
    /\ [](Len(loaded) = Len(dictionary))
    /\ [][ (lastOp.op = "unpack" /\ lastOp.result = "running"
              /\ lastOp'.op = "unpack" /\ lastOp'.result # "running")
           => LET ref == RefUnpack(NewFrame(lastOp.arg), {}) IN
              /\ lastOp'.result = "returned"
                    => ref = <<"bytes", lastOp'.value>>
              /\ lastOp'.result # "returned" => ref[1] # "bytes" ]_vars

\* C13 witness: on an acyclic dictionary, the first pass of a call has
\* appended bytes that an earlier call decoded and stored in the slot.
C13_Witness ==
    /\ Acyclic
    /\ Depth = 1
    /\ Top.passes = 1
    /\ last.kind = "cached"
    /\ dictionary[SlotOf(last.r)][2] = 1
    /\ Top.s # <<>>


\* C12 as stated: with two interleaved unpack calls on one dictionary, no
\* call has referenced (and failed on) a slot that the other call is
\* resolving, and no slot has been recursively decoded more than once.
C12_NoReferenceDuringResolution ==
    /\ ~(/\ lastOp.op = "unpack" /\ lastOp.result = "TypeError"
         /\ last.kind = "raise"
         /\ SlotOf(last.r) \in OtherResolving)
    /\ \A k \in DOMAIN resolves : resolves[k] <= 1

=============================================================================
